---- MODULE Spec2Model ----
(***************************************************************************)
(* Model of src/main.py: the daily news pipeline.                          *)
(*   module load : read three secrets, exit(1) if one is falsy, build the  *)
(*                 generation client                                       *)
(*   main        : search_news -> generate_summary -> send_line_push       *)
(* The program is single-threaded; pc is the position of the one thread.   *)
(* The three providers (search, generation, messaging) are the             *)
(* environment: each call to one of them returns or raises.                *)
(***************************************************************************)
EXTENDS Integers, Sequences, FiniteSets

\* ------------------------------------------------------------------ bounds
\* Longest result sequence one query's lazy generator can yield.
MaxFetch == 4

\* ------------------------------------------------------------ python values
None == "<None>"

\* bool(s) of a str-or-None value
Truthy(s) == s # None /\ s # ""

\* needle in hay, on sequences of characters (python's str.__contains__)
Contains(hay, needle) ==
    \E i \in 0..(Len(hay) - Len(needle)) :
        \A j \in 1..Len(needle) : hay[i + j] = needle[j]

\* ------------------------------------------------------------ search_news
\* def search_news(target_date, max_results_per_keyword=3)
DefaultMaxResults == 3

keywords ==
    << "Major International Geopolitics -celebrity -gossip -sport -movie",
       "Global Economic Impact -stock -crypto",
       "Scientific Research Breakthroughs AI Space -movie -fiction" >>

block_list ==
    << <<"K","a","r","d","a","s","h","i","a","n">>,
       <<"T","a","y","l","o","r"," ","S","w","i","f","t">>,
       <<"N","e","t","f","l","i","x">>,
       <<"R","e","v","i","e","w">>,
       <<"B","o","x"," ","O","f","f","i","c","e">> >>

\* if any(bad_word in title for bad_word in block_list): the prefix-only variant
BlockedPrefixOnly(title) ==
    \E k \in 1..Len(block_list) :
        /\ Len(block_list[k]) <= Len(title)
        /\ SubSeq(title, 1, Len(block_list[k])) = block_list[k]

\* if any(bad_word in title for bad_word in block_list)
Blocked(title) ==
    \E k \in 1..Len(block_list) : Contains(title, block_list[k])

\* if count >= max_results_per_keyword: the off-by-one variant
CapReachedStrict(cnt, cap) == cnt > cap

\* if count >= max_results_per_keyword: break
CapReached(cnt, cap) == cnt >= cap

\* if title and url
Acceptable(title, url) == title # <<>> /\ Truthy(url)

\* f"類別: {query}\n標題: {title}\n摘要: {body}\n連結: {url}"
FormatBlock(query, title, body, url) ==
    [category |-> query, title |-> title, body |-> body, url |-> url]

\* Titles the search provider may return.
TitleFusion ==
    <<"A","I"," ","B","r","e","a","k","t","h","r","o","u","g","h"," ",
      "i","n"," ","F","u","s","i","o","n"," ",
      "R","e","s","e","a","r","c","h">>
TitleSwift ==
    <<"T","a","y","l","o","r"," ","S","w","i","f","t"," ",
      "a","n","n","o","u","n","c","e","s"," ","t","o","u","r">>
TitleSwiftLower ==
    <<"t","a","y","l","o","r"," ","s","w","i","f","t"," ","t","o","u","r">>
TitlePeerReviewed ==
    <<"P","e","e","r"," ","R","e","v","i","e","w","e","d"," ",
      "S","t","u","d","y">>
TitleBoxOffice ==
    <<"W","e","e","k","e","n","d"," ","B","o","x"," ","O","f","f","i","c","e">>

\* Records the provider's result sequence is made of; r.get(key, '') reads a
\* missing key as the empty string.
ProviderResults ==
    { [title |-> TitleFusion,       body |-> "...", url |-> "http://x"],
      [title |-> TitleSwift,        body |-> "...", url |-> "http://y"],
      [title |-> TitleSwiftLower,   body |-> "...", url |-> "http://z"],
      [title |-> TitlePeerReviewed, body |-> "...", url |-> "http://x"],
      [title |-> TitleBoxOffice,    body |-> "",    url |-> ""],
      [title |-> TitleFusion,       body |-> "...", url |-> ""],
      [title |-> <<>>,              body |-> "...", url |-> "http://x"] }

NoResult == [title |-> <<>>, body |-> "", url |-> ""]

\* ------------------------------------------------------- generate_summary
candidate_models == << "gemini-1.5-pro-002", "gemini-flash-latest" >>

\* response.text of a generation call that returned
Texts == { "Report body", "", None }

Raised == "<raised>"

\* ------------------------------------------------------------------- state
VARIABLES
    pc,                       \* position of the thread
    GEMINI_API_KEY,           \* os.getenv results
    LINE_CHANNEL_ACCESS_TOKEN,
    LINE_USER_ID,
    exitCode,                 \* None while running, else the exit status
    client,                   \* genai.Client constructed
    max_results_per_keyword,  \* parameter of search_news
    ddgsOpen,                 \* inside "with DDGS() as ddgs"
    qi,                       \* index of query in keywords
    count,                    \* accepted items of the current query
    fetched,                  \* results taken from the current news_gen
    r,                        \* loop variable of "for r in news_gen"
    results,                  \* local list of search_news
    news,                     \* main's news
    searchCalls,              \* calls of search_news
    summaryCalls,             \* calls of generate_summary
    mi,                       \* index of model_name in candidate_models
    genCalls,                 \* generate_content calls: model and outcome
    summary,                  \* main's summary
    pushCalls,                \* messages send_line_push was called with
    apiClientOpen,            \* inside "with ApiClient(configuration)"
    delivered,                \* push requests the provider accepted
    raised,                   \* positions at which a provider raised
    log                       \* warning / error lines emitted

vars == << pc, GEMINI_API_KEY, LINE_CHANNEL_ACCESS_TOKEN, LINE_USER_ID,
           exitCode, client, max_results_per_keyword, ddgsOpen, qi, count,
           fetched, r, results, news, searchCalls, summaryCalls, mi,
           genCalls, summary, pushCalls, apiClientOpen, delivered, raised,
           log >>

envVars == << GEMINI_API_KEY, LINE_CHANNEL_ACCESS_TOKEN, LINE_USER_ID >>
searchVars == << max_results_per_keyword, ddgsOpen, qi, count, fetched, r,
                 results, searchCalls >>
genVars == << summaryCalls, mi, genCalls >>
pushVars == << pushCalls, apiClientOpen, delivered >>

SecretValues == { None, "", "secret" }

Init ==
    /\ pc = "load"
    /\ GEMINI_API_KEY \in SecretValues
    /\ LINE_CHANNEL_ACCESS_TOKEN \in SecretValues
    /\ LINE_USER_ID \in SecretValues
    /\ exitCode = None
    /\ client = FALSE
    /\ max_results_per_keyword = 0
    /\ ddgsOpen = FALSE
    /\ qi = 0
    /\ count = 0
    /\ fetched = 0
    /\ r = NoResult
    /\ results = << >>
    /\ news = << >>
    /\ searchCalls = 0
    /\ summaryCalls = 0
    /\ mi = 0
    /\ genCalls = << >>
    /\ summary = None
    /\ pushCalls = << >>
    /\ apiClientOpen = FALSE
    /\ delivered = << >>
    /\ raised = {}
    /\ log = {}


\* --------------------------------------------------------------- module load
\* all([GEMINI_API_KEY, LINE_CHANNEL_ACCESS_TOKEN, LINE_USER_ID]), with one
\* of the three left out of the list
all_secrets_but_user ==
    Truthy(GEMINI_API_KEY) /\ Truthy(LINE_CHANNEL_ACCESS_TOKEN)

\* all([GEMINI_API_KEY, LINE_CHANNEL_ACCESS_TOKEN, LINE_USER_ID])
all_secrets ==
    /\ Truthy(GEMINI_API_KEY)
    /\ Truthy(LINE_CHANNEL_ACCESS_TOKEN)
    /\ Truthy(LINE_USER_ID)

\* An exception nobody catches: traceback, exit status 1.
Crash ==
    /\ pc' = "crashed"
    /\ exitCode' = 1

\* if not all([...]): logger.error(...); sys.exit(1)
CheckEnv ==
    /\ pc = "load"
    /\ IF ~all_secrets
         THEN /\ log' = log \cup {"env_missing"}
              /\ exitCode' = 1
              /\ pc' = "exited"
         ELSE /\ pc' = "init_client"
              /\ UNCHANGED << log, exitCode >>
    /\ UNCHANGED << envVars, client, searchVars, news, genVars, summary,
                    pushVars, raised >>

\* client = genai.Client(api_key=GEMINI_API_KEY)
InitClient ==
    /\ pc = "init_client"
    /\ client' = TRUE
    /\ pc' = "main"
    /\ UNCHANGED << envVars, exitCode, searchVars, news, genVars, summary,
                    pushVars, raised, log >>

\* ---------------------------------------------------------------------- main
\* news = search_news(today): main leaves the cap at its default; the
\* function is modelled for every cap up to it
MainCallSearch ==
    /\ pc = "main"
    /\ \E cap \in 0..DefaultMaxResults : max_results_per_keyword' = cap
    /\ searchCalls' = searchCalls + 1
    /\ results' = << >>
    /\ pc' = "search_open"
    /\ UNCHANGED << envVars, exitCode, client, ddgsOpen, qi, count, fetched,
                    r, news, genVars, summary, pushVars, raised, log >>

\* ------------------------------------------------------------- search_news
\* with DDGS() as ddgs:
OpenDDGS ==
    /\ pc = "search_open"
    /\ ddgsOpen' = TRUE
    /\ qi' = 1
    /\ pc' = "search_query"
    /\ UNCHANGED << envVars, exitCode, client, max_results_per_keyword,
                    count, fetched, r, results, searchCalls, news, genVars,
                    summary, pushVars, raised, log >>

\* for query in keywords: news_gen = ddgs.news(query, ...); count = 0
IssueQuery ==
    /\ pc = "search_query"
    /\ qi <= Len(keywords)
    /\ count' = 0
    /\ fetched' = 0
    /\ pc' = "search_fetch"
    /\ UNCHANGED << envVars, exitCode, client, max_results_per_keyword,
                    ddgsOpen, qi, r, results, searchCalls, news, genVars,
                    summary, pushVars, raised, log >>

\* for r in news_gen: the generator yields its next record
FetchYield ==
    /\ pc = "search_fetch"
    /\ fetched < MaxFetch
    /\ \E rec \in ProviderResults : r' = rec
    /\ fetched' = fetched + 1
    /\ pc' = "search_body"
    /\ UNCHANGED << envVars, exitCode, client, max_results_per_keyword,
                    ddgsOpen, qi, count, results, searchCalls, news, genVars,
                    summary, pushVars, raised, log >>

\* for r in news_gen: the generator is exhausted
FetchExhausted ==
    /\ pc = "search_fetch"
    /\ qi' = qi + 1
    /\ pc' = "search_query"
    /\ UNCHANGED << envVars, exitCode, client, max_results_per_keyword,
                    ddgsOpen, count, fetched, r, results, searchCalls, news,
                    genVars, summary, pushVars, raised, log >>

\* the body of "for r in news_gen"
LoopBody ==
    /\ pc = "search_body"
    /\ IF CapReached(count, max_results_per_keyword)
         THEN \* break
              /\ qi' = qi + 1
              /\ pc' = "search_query"
              /\ UNCHANGED << count, results >>
         ELSE IF Blocked(r.title)
           THEN \* continue
                /\ pc' = "search_fetch"
                /\ UNCHANGED << qi, count, results >>
           ELSE IF Acceptable(r.title, r.url)
             THEN /\ results' = Append(results,
                        FormatBlock(keywords[qi], r.title, r.body, r.url))
                  /\ count' = count + 1
                  /\ pc' = "search_fetch"
                  /\ UNCHANGED qi
             ELSE /\ pc' = "search_fetch"
                  /\ UNCHANGED << qi, count, results >>
    /\ UNCHANGED << envVars, exitCode, client, max_results_per_keyword,
                    ddgsOpen, fetched, r, searchCalls, news, genVars,
                    summary, pushVars, raised, log >>

\* search_news is left: its frame, with the loop's locals, is gone. results
\* is kept as the list the call had built, to compare the returned one with.
SearchFrameGone ==
    /\ qi' = 0
    /\ count' = 0
    /\ fetched' = 0
    /\ r' = NoResult

\* try: ... (lines 70-93): the positions an exception is caught from
SearchTryRegion ==
    { "search_open", "search_query", "search_fetch", "search_body" }

\* except Exception as e: logger.error(...); return results
SearchExceptPartial ==
    /\ log' = log \cup {"search_error"}
    /\ news' = results
    /\ pc' = "main_check"
    /\ UNCHANGED exitCode

\* except Exception as e: logger.error(...); return []
SearchExcept ==
    /\ log' = log \cup {"search_error"}
    /\ news' = << >>
    /\ pc' = "main_check"
    /\ UNCHANGED exitCode

\* DDGS(), ddgs.news(query, ...) or next(news_gen) raises
SearchProviderRaises ==
    /\ \/ pc = "search_open"
       \/ pc = "search_query" /\ qi <= Len(keywords)
       \/ pc = "search_fetch"
    /\ raised' = raised \cup {pc}
    /\ ddgsOpen' = FALSE
    /\ IF pc \in SearchTryRegion
         THEN SearchExcept
         ELSE Crash /\ UNCHANGED << news, log >>
    /\ SearchFrameGone
    /\ UNCHANGED << envVars, client, max_results_per_keyword, results,
                    searchCalls, genVars, summary, pushVars >>

\* the with block ends; logger.info(...); return results
SearchReturn ==
    /\ pc = "search_query"
    /\ qi > Len(keywords)
    /\ ddgsOpen' = FALSE
    /\ news' = results
    /\ pc' = "main_check"
    /\ SearchFrameGone
    /\ UNCHANGED << envVars, exitCode, client, max_results_per_keyword,
                    results, searchCalls, genVars, summary, pushVars, raised,
                    log >>

\* ------------------------------------------------------------ main, goes on
\* "if news is None": never true, search_news returns a list
NewsIsNone(n) == FALSE

\* not news
NewsEmpty(n) == n = << >>

\* if not news: logger.warning(...); return
\* summary = generate_summary(news, today)
MainCheckNews ==
    /\ pc = "main_check"
    /\ IF NewsEmpty(news)
         THEN /\ log' = log \cup {"no_news"}
              /\ pc' = "done"
              /\ exitCode' = 0
              /\ UNCHANGED summaryCalls
         ELSE /\ summaryCalls' = summaryCalls + 1
              /\ pc' = "gen_enter"
              /\ UNCHANGED << log, exitCode >>
    /\ UNCHANGED << envVars, client, searchVars, news, mi, genCalls, summary,
                    pushVars, raised >>

\* ------------------------------------------------------- generate_summary
\* if not news_list: return None; the prompt is built; the loop starts
GenEnter ==
    /\ pc = "gen_enter"
    /\ IF news = << >>
         THEN /\ summary' = None
              /\ pc' = "main_summary"
              /\ UNCHANGED mi
         ELSE /\ mi' = 1
              /\ pc' = "gen_call"
              /\ UNCHANGED summary
    /\ UNCHANGED << envVars, exitCode, client, searchVars, news,
                    summaryCalls, genCalls, pushVars, raised, log >>

\* generate_content returns and the loop goes on to the next candidate,
\* the text kept
GenCallReturnsNoReturn ==
    /\ pc = "gen_call"
    /\ mi <= Len(candidate_models)
    /\ \E t \in Texts :
          /\ genCalls' = Append(genCalls,
                  [model |-> candidate_models[mi], outcome |-> t])
          /\ summary' = t
    /\ mi' = mi + 1
    /\ UNCHANGED << pc, envVars, exitCode, client, searchVars, news,
                    summaryCalls, pushVars, raised, log >>

\* response = client.models.generate_content(model=model_name, ...)
\* return response.text
GenCallReturns ==
    /\ pc = "gen_call"
    /\ mi <= Len(candidate_models)
    /\ \E t \in Texts :
          /\ genCalls' = Append(genCalls,
                  [model |-> candidate_models[mi], outcome |-> t])
          /\ summary' = t
    /\ pc' = "main_summary"
    /\ UNCHANGED << envVars, exitCode, client, searchVars, news,
                    summaryCalls, mi, pushVars, raised, log >>

\* try: ... (lines 132-143): the positions an exception is caught from
GenTryRegion == { "gen_call" }

\* generate_content raises; except Exception: logger.warning(...); continue
GenCallRaises ==
    /\ pc = "gen_call"
    /\ mi <= Len(candidate_models)
    /\ genCalls' = Append(genCalls,
            [model |-> candidate_models[mi], outcome |-> Raised])
    /\ raised' = raised \cup {pc}
    /\ IF pc \in GenTryRegion
         THEN /\ log' = log \cup {"model_failed"}
              /\ mi' = mi + 1
              /\ UNCHANGED << pc, exitCode >>
         ELSE Crash /\ UNCHANGED << log, mi >>
    /\ UNCHANGED << envVars, client, searchVars, news, summaryCalls, summary,
                    pushVars >>

\* the loop is over and the block after "return None" runs: one more
\* generate_content call, with 'gemini-flash-latest'
GenExhaustedThenFallback ==
    /\ pc = "gen_call"
    /\ mi > Len(candidate_models)
    /\ \E t \in Texts :
          /\ genCalls' = Append(genCalls,
                  [model |-> "gemini-flash-latest", outcome |-> t])
          /\ summary' = t
    /\ pc' = "main_summary"
    /\ UNCHANGED << envVars, exitCode, client, searchVars, news,
                    summaryCalls, mi, pushVars, raised, log >>

\* logger.error(...); return None
GenExhausted ==
    /\ pc = "gen_call"
    /\ mi > Len(candidate_models)
    /\ log' = log \cup {"all_failed"}
    /\ summary' = None
    /\ pc' = "main_summary"
    /\ UNCHANGED << envVars, exitCode, client, searchVars, news,
                    summaryCalls, mi, genCalls, pushVars, raised >>

\* ------------------------------------------------------------ main, goes on
\* "if not summary": the test inverted
SummaryFalsy(s) == ~Truthy(s)

\* if summary
SummaryTruthy(s) == Truthy(s)

\* if summary: print(...); send_line_push(summary)
MainCheckSummary ==
    /\ pc = "main_summary"
    /\ IF SummaryTruthy(summary)
         THEN /\ pushCalls' = Append(pushCalls, summary)
              /\ pc' = "push_config"
              /\ UNCHANGED exitCode
         ELSE /\ pc' = "done"
              /\ exitCode' = 0
              /\ UNCHANGED pushCalls
    /\ UNCHANGED << envVars, client, searchVars, news, genVars, summary,
                    apiClientOpen, delivered, raised, log >>

\* ---------------------------------------------------------- send_line_push
\* configuration = Configuration(access_token=LINE_CHANNEL_ACCESS_TOKEN):
\* a local object, no call to the provider
PushConfig ==
    /\ pc = "push_config"
    /\ pc' = "push_open"
    /\ UNCHANGED << envVars, exitCode, client, searchVars, news, genVars,
                    summary, pushVars, raised, log >>

\* with ApiClient(configuration) as api_client:
PushOpen ==
    /\ pc = "push_open"
    /\ apiClientOpen' = TRUE
    /\ pc' = "push_send"
    /\ UNCHANGED << envVars, exitCode, client, searchVars, news, genVars,
                    summary, pushCalls, delivered, raised, log >>

\* line_bot_api.push_message(PushMessageRequest(to=LINE_USER_ID,
\*     messages=[TextMessage(text=message)])); the with block ends
PushSend ==
    /\ pc = "push_send"
    /\ delivered' = Append(delivered,
            [to |-> LINE_USER_ID, text |-> pushCalls[Len(pushCalls)]])
    /\ apiClientOpen' = FALSE
    /\ pc' = "push_return"
    /\ UNCHANGED << envVars, exitCode, client, searchVars, news, genVars,
                    summary, pushCalls, raised, log >>

\* the try block with push_message left outside it
PushTryRegionNoSend == { "push_open" }

\* try: ... (lines 170-178): the positions an exception is caught from
PushTryRegion == { "push_open", "push_send" }

\* ApiClient(configuration) or push_message raises; the with block, when
\* entered, releases the client; except Exception: logger.error(...)
PushProviderRaises ==
    /\ pc \in { "push_open", "push_send" }
    /\ raised' = raised \cup {pc}
    /\ apiClientOpen' = FALSE
    /\ IF pc \in PushTryRegion
         THEN /\ log' = log \cup {"line_failed"}
              /\ pc' = "push_return"
              /\ UNCHANGED exitCode
         ELSE Crash /\ UNCHANGED log
    /\ UNCHANGED << envVars, client, searchVars, news, genVars, summary,
                    pushCalls, delivered >>

\* send_line_push returns, main returns, the interpreter exits
MainReturn ==
    /\ pc = "push_return"
    /\ pc' = "done"
    /\ exitCode' = 0
    /\ UNCHANGED << envVars, client, searchVars, news, genVars, summary,
                    pushVars, raised, log >>

\* ---------------------------------------------------------------- positions
SearchPcs == { "search_open", "search_query", "search_fetch", "search_body" }
\* generate_summary has returned to main
AfterGenPcs == { "main_summary", "push_config", "push_open", "push_send",
                 "push_return", "done" }

\* --------------------------------------------------------------------- spec
Next ==
    \/ CheckEnv
    \/ InitClient
    \/ MainCallSearch
    \/ OpenDDGS
    \/ IssueQuery
    \/ FetchYield
    \/ FetchExhausted
    \/ LoopBody
    \/ SearchProviderRaises
    \/ SearchReturn
    \/ MainCheckNews
    \/ GenEnter
    \/ GenCallReturns
    \/ GenCallRaises
    \/ GenExhausted
    \/ MainCheckSummary
    \/ PushConfig
    \/ PushOpen
    \/ PushSend
    \/ PushProviderRaises
    \/ MainReturn

Spec == Init /\ [][Next]_vars

\* ------------------------------------------------------------------- claims
\* w occurs in title as a contiguous run of characters
HasSubstring(title, w) ==
    \E i \in 1..Len(title) :
        /\ i + Len(w) - 1 <= Len(title)
        /\ title[i] = w[1]
        /\ SubSeq(title, i, i + Len(w) - 1) = w

HasBlocklistedSubstring(title) ==
    \E k \in 1..Len(block_list) : HasSubstring(title, block_list[k])

FusionBlock(q) == FormatBlock(keywords[q], TitleFusion, "...", "http://x")

\* C1: no block of the list search_news builds or returns, hence none that
\* reaches generate_summary, has a title containing a blocklisted substring,
\* whatever its URL, body or category.
C1_NoBlocklistedTitle ==
    \A t \in { results[i].title : i \in 1..Len(results) }
               \cup { news[i].title : i \in 1..Len(news) } :
        ~HasBlocklistedSubstring(t)

\* C1 witness: of "AI Breakthrough in Fusion Research" and "Taylor Swift
\* announces tour", fetched in this order, only the first became a block.
C1_Witness ==
    /\ pc = "search_fetch"
    /\ fetched = 2
    /\ r.title = TitleSwift
    /\ results = << FusionBlock(1) >>

\* C2: at every point of the loop the accepted count of the current query is
\* at most max_results_per_keyword, no query has more blocks than that in
\* the list, and the list holds at most 3 * max_results_per_keyword blocks.
C2_CapRespected ==
    /\ count <= max_results_per_keyword
    /\ \A q \in 1..Len(keywords) :
          Cardinality({ i \in 1..Len(results) :
                          results[i].category = keywords[q] })
            <= max_results_per_keyword
    /\ Len(results) <= Len(keywords) * max_results_per_keyword
    /\ Len(news) <= Len(keywords) * max_results_per_keyword

\* C2 witness: the default cap of 3 is reached by each of the three queries.
C2_Witness ==
    /\ pc = "main_check"
    /\ max_results_per_keyword = DefaultMaxResults
    /\ Len(news) = Len(keywords) * DefaultMaxResults

\* C3: once search_news has returned the empty list, generate_summary and
\* send_line_push are never invoked, and main returns normally.
C3_EmptySearchShortCircuits ==
    (searchCalls = 1 /\ pc \notin SearchPcs /\ news = << >>)
      => /\ summaryCalls = 0
         /\ genCalls = << >>
         /\ pushCalls = << >>
         /\ delivered = << >>
         /\ pc \in { "main_check", "done" }
         /\ (pc = "done" => exitCode = 0)

\* C3 witness: a run that ended after an empty search, without a provider
\* error.
C3_Witness ==
    /\ pc = "done"
    /\ exitCode = 0
    /\ searchCalls = 1
    /\ news = << >>
    /\ raised = {}
    /\ "no_news" \in log

\* C4: the generation calls are the candidates in list order, each at most
\* once; no call follows a call that returned; generate_summary returns the
\* text of the call that returned.
C4_OrderedFallback ==
    /\ Len(genCalls) <= Len(candidate_models)
    /\ \A i \in 1..Len(genCalls) : genCalls[i].model = candidate_models[i]
    /\ \A i \in 1..(Len(genCalls) - 1) : genCalls[i].outcome = Raised
    /\ (/\ pc \in AfterGenPcs
        /\ genCalls # << >>
        /\ genCalls[Len(genCalls)].outcome # Raised)
         => summary = genCalls[Len(genCalls)].outcome

\* C4 witness: the first candidate returned, generate_summary has returned
\* its text after exactly one call.
C4_Witness ==
    /\ pc = "main_summary"
    /\ genCalls = << [model |-> candidate_models[1],
                      outcome |-> "Report body"] >>
    /\ summary = "Report body"

EveryCandidateFailed ==
    \A k \in 1..Len(candidate_models) :
        \E i \in 1..Len(genCalls) :
            /\ genCalls[i].model = candidate_models[k]
            /\ genCalls[i].outcome = Raised

\* C5: if every candidate's call failed, each candidate was tried exactly
\* once, generate_summary returns None and send_line_push is never invoked.
C5_AllFailReturnsNone ==
    EveryCandidateFailed
      => /\ Len(genCalls) = Len(candidate_models)
         /\ summary = None
         /\ pushCalls = << >>
         /\ delivered = << >>
         /\ pc \in { "gen_call", "main_summary", "done" }

\* C5 witness: a run that ended after both candidates failed.
C5_Witness ==
    /\ pc = "done"
    /\ EveryCandidateFailed
    /\ "all_failed" \in log

\* the text of the first generation call that returned, if one did
FirstSuccessText ==
    LET ok == { i \in 1..Len(genCalls) : genCalls[i].outcome # Raised }
    IN  IF ok = {} THEN Raised
        ELSE genCalls[CHOOSE i \in ok : \A j \in ok : i <= j].outcome

\* C6 as stated: for every text T the first succeeding candidate returns, a
\* finished run has called send_line_push exactly once, with T.
C6_Original ==
    (pc = "done" /\ FirstSuccessText \notin { Raised, None })
      => /\ summary = FirstSuccessText
         /\ pushCalls = << FirstSuccessText >>

\* C6 amended: for every non-empty text T the first succeeding candidate
\* returns, generate_summary returns T and a finished run has called
\* send_line_push exactly once, with T; no run calls it twice.
C6_NonEmptyTextPushedOnce ==
    /\ Len(pushCalls) <= 1
    /\ (pc \in AfterGenPcs /\ Truthy(FirstSuccessText)
          /\ FirstSuccessText # Raised)
         => summary = FirstSuccessText
    /\ (pc = "done" /\ Truthy(FirstSuccessText)
          /\ FirstSuccessText # Raised)
         => pushCalls = << FirstSuccessText >>

\* C6 witness: the first candidate raised, the second returned "Report
\* body", and the run ended with one push of that text.
C6_Witness ==
    /\ pc = "done"
    /\ news # << >>
    /\ genCalls = << [model |-> candidate_models[1], outcome |-> Raised],
                     [model |-> candidate_models[2],
                      outcome |-> "Report body"] >>
    /\ summary = "Report body"
    /\ pushCalls = << "Report body" >>

\* C7: after the search provider raised, at client construction, at a query
\* or at a fetch, search_news has returned the empty list, the error is
\* logged and nothing propagated to main.
C7_SearchErrorReturnsEmpty ==
    (raised \cap SearchPcs # {})
      => /\ news = << >>
         /\ "search_error" \in log
         /\ pc \in { "main_check", "done" }
         /\ (pc = "done" => exitCode = 0)

\* C7 witness: the provider raised at a fetch of the second query or later,
\* after blocks of an earlier query and of the same query were accepted.
C7_Witness ==
    /\ pc = "main_check"
    /\ "search_fetch" \in raised
    /\ news = << >>
    /\ \E i, j \in 1..Len(results) :
          /\ results[i].category = keywords[1]
          /\ results[j].category = keywords[2]

AnySecretAbsent ==
    \/ GEMINI_API_KEY = None
    \/ LINE_CHANNEL_ACCESS_TOKEN = None
    \/ LINE_USER_ID = None

\* C8: with one of the three secrets absent the process exits with status 1
\* before the generation client is constructed and before search_news,
\* generate_summary or send_line_push is attempted.
C8_MissingSecretExitsFirst ==
    AnySecretAbsent
      => /\ pc \in { "load", "exited" }
         /\ (pc = "exited" => exitCode = 1)
         /\ ~client
         /\ searchCalls = 0
         /\ summaryCalls = 0
         /\ genCalls = << >>
         /\ pushCalls = << >>
         /\ delivered = << >>
         /\ ~ddgsOpen
         /\ ~apiClientOpen

\* C8 witness: only LINE_USER_ID is absent and the process has exited.
C8_Witness ==
    /\ pc = "exited"
    /\ exitCode = 1
    /\ GEMINI_API_KEY = "secret"
    /\ LINE_CHANNEL_ACCESS_TOKEN = "secret"
    /\ LINE_USER_ID = None

\* C9: an exception of the messaging provider, at the client's construction
\* or at the push, is logged and not propagated; the client is released once
\* send_line_push is left; the run ends with status 0.
C9_PushFailureSwallowed ==
    /\ (raised \cap { "push_open", "push_send" } # {})
         => /\ "line_failed" \in log
            /\ pc \in { "push_return", "done" }
            /\ delivered = << >>
    /\ pc \in { "push_return", "done", "crashed" } => ~apiClientOpen
    /\ (pc = "done" => exitCode = 0)
    /\ (pushCalls # << >> => pc # "crashed")

\* C9 witness: push_message raised with the client open, and the run ended
\* normally with the client released.
C9_Witness ==
    /\ pc = "done"
    /\ exitCode = 0
    /\ "push_send" \in raised
    /\ ~apiClientOpen

\* C10 as stated: a result is fetched from a query's sequence only while the
\* accepted count of that query is below max_results_per_keyword.
C10_NoFetchAfterCap ==
    pc = "search_body" => count < max_results_per_keyword

====
